---- MODULE Spec2Model ----
(***************************************************************************)
(* Model of python_mini_project.py: FileStorage (one JSON document held in *)
(* memory and written whole to library_data.json) and LibrarySystem (the   *)
(* catalogue operations behind the menu of main()).                        *)
(*                                                                         *)
(* Free-text fields that no branch of the program reads (author, genre,    *)
(* holder name, branch, address, phone) are left out of the records; the   *)
(* book title is kept because issue_book copies it into the loan record.   *)
(***************************************************************************)
EXTENDS Integers, Sequences, FiniteSets, TLC

(* ------------------------------ bounds -------------------------------- *)
MaxBooks == 2
MaxCards == 1
MaxLoans == 2
MaxFaults == 1

VARIABLES
    data,           \* FileStorage.data: the in-memory document
    file,           \* library_data.json as it is on disk
    pc,             \* "running" | "crashed" (FileStorage() raised in main)
    lastOp,         \* the last menu operation: what it printed, and for
                    \* add_book the line typed for the number of copies
    faults,         \* history: save_data calls that have failed so far
    addedWith,      \* history: copies each book id was last added with
    printedBookId,  \* history: highest "Book ID" add_book has printed
    returnedLoans   \* history: borrower ids whose return was printed

vars == <<data, file, pc, lastOp, faults, addedWith, printedBookId, returnedLoans>>

(* --------------------------- console input ---------------------------- *)
\* A line typed at a prompt is a sequence of characters.
DigitChars == <<"0", "1", "2", "3", "4", "5", "6", "7", "8", "9">>

IsDigit(c) == \E i \in 1..Len(DigitChars) : DigitChars[i] = c

DigitVal(c) == (CHOOSE i \in 1..Len(DigitChars) : DigitChars[i] = c) - 1

RECURSIVE DigitsValue(_, _)
DigitsValue(s, acc) ==
    IF s = <<>> THEN acc ELSE DigitsValue(Tail(s), acc * 10 + DigitVal(Head(s)))

\* Python's int(str): an optional sign, then one or more decimal digits;
\* anything else raises ValueError (ok = FALSE).
int(s) ==
    LET signed == Len(s) > 0 /\ s[1] \in {"-", "+"}
        body == IF signed THEN Tail(s) ELSE s
    IN  IF body = <<>> \/ \E i \in 1..Len(body) : ~IsDigit(body[i])
        THEN [ok |-> FALSE, v |-> 0]
        ELSE [ok |-> TRUE,
              v |-> IF s[1] = "-" THEN 0 - DigitsValue(body, 0)
                    ELSE DigitsValue(body, 0)]

\* The decimal text of a one-digit number, and of its negation.
Text(n) == <<DigitChars[n + 1]>>
NegText(n) == <<"-">> \o Text(n)

\* A line that is no number, and the number of no record.
Junk == <<"x">>
UnknownText == <<"9">>

Titles == {"Dune"}
CopiesTexts == {Text(0), Text(1), Text(2), NegText(1), Junk}
CardTexts == {Text(n) : n \in 1..MaxCards} \cup {UnknownText, Junk}
BookTexts == {Text(n) : n \in 1..MaxBooks} \cup {UnknownText, Junk}
LoanTexts == {Text(n) : n \in 1..MaxLoans} \cup {UnknownText, Junk}
SubscriptionTexts == {Text(6), Junk}

(* ------------------------------ dates --------------------------------- *)
\* A date is <<year, month, day>>.
IsLeap(y) == (y % 4 = 0 /\ y % 100 # 0) \/ y % 400 = 0

DaysInMonth(y, m) ==
    IF m = 2 THEN (IF IsLeap(y) THEN 29 ELSE 28)
    ELSE IF m \in {4, 6, 9, 11} THEN 30 ELSE 31

\* The days on which the model lets the program run.
Dates == {<<2024, 2, 15>>, <<2023, 12, 25>>}

Pad2(n) == IF n < 10 THEN "0" \o ToString(n) ELSE ToString(n)

\* date.strftime('%Y-%m-%d')
strftime(d) == ToString(d[1]) \o "-" \o Pad2(d[2]) \o "-" \o Pad2(d[3])

\* date.replace(day=n): ValueError when the month has no such day.
replace_day(d, n) ==
    IF n >= 1 /\ n <= DaysInMonth(d[1], d[2])
    THEN [ok |-> TRUE, date |-> <<d[1], d[2], n>>]
    ELSE [ok |-> FALSE, date |-> d]

(* ---------------------------- FileStorage ----------------------------- *)
\* The default structure of load_data. "shape" tells a document that has
\* the six keys from JSON of another shape, whose keys are missing.
DefaultDoc ==
    [shape |-> "ok",
     books |-> <<>>,
     library_cards |-> <<>>,
     borrowers |-> <<>>,
     next_book_id |-> 1,
     next_card_no |-> 1,
     next_borrower_id |-> 1]

NoKeysDoc == [DefaultDoc EXCEPT !.shape = "nokeys"]

AbsentFile == [kind |-> "absent", doc |-> DefaultDoc]
GarbageFile == [kind |-> "garbage", doc |-> DefaultDoc]
NoKeysFile == [kind |-> "nokeys", doc |-> DefaultDoc]
UnreadableFile == [kind |-> "unreadable", doc |-> DefaultDoc]
DocFile(d) == [kind |-> "doc", doc |-> d]

\* load_data: the parsed file when it exists and parses, the default
\* structure when it is absent or is not JSON; any other error of open()
\* or read() is not caught and leaves FileStorage() unconstructed.
load_data(f) ==
    CASE f.kind = "absent" -> [raised |-> FALSE, doc |-> DefaultDoc]
      [] f.kind = "garbage" -> [raised |-> FALSE, doc |-> DefaultDoc]
      [] f.kind = "nokeys" -> [raised |-> FALSE, doc |-> NoKeysDoc]
      [] f.kind = "unreadable" -> [raised |-> TRUE, doc |-> DefaultDoc]
      [] OTHER -> [raised |-> FALSE, doc |-> f.doc]

\* How one call of save_data can end: written whole; open() failed and
\* the file is as it was; open(..., 'w') truncated the file and the dump
\* did not complete.
SaveOutcomes == {"written", "open_failed", "dump_failed"}

save_data(f, d, outcome) ==
    CASE outcome = "written" -> [file |-> DocFile(d), ret |-> TRUE]
      [] outcome = "open_failed" -> [file |-> f, ret |-> FALSE]
      [] OTHER -> [file |-> GarbageFile, ret |-> FALSE]

\* The save_data calls of one operation, in order; no caller reads the
\* value save_data returns.
RECURSIVE ApplyWrites(_, _, _)
ApplyWrites(f, writes, outs) ==
    IF writes = <<>> THEN f
    ELSE ApplyWrites(save_data(f, Head(writes), Head(outs)).file,
                     Tail(writes), Tail(outs))

get_next_id(d, key) == [id |-> d[key], doc |-> [d EXCEPT ![key] = @ + 1]]

(* --------------------------- LibrarySystem ---------------------------- *)
\* What an operation leaves: the document, the message printed, the id
\* printed (0 when none), and the documents handed to save_data.
Outcome(d, result, id, writes) ==
    [doc |-> d, result |-> result, id |-> id, writes |-> writes]

\* Index of the first book with this id, 0 for None.
find_book(d, book_id) ==
    IF \E i \in 1..Len(d.books) : d.books[i].book_id = book_id
    THEN CHOOSE i \in 1..Len(d.books) :
            /\ d.books[i].book_id = book_id
            /\ \A j \in 1..(i - 1) : d.books[j].book_id # book_id
    ELSE 0

find_card(d, card_no) ==
    IF \E i \in 1..Len(d.library_cards) : d.library_cards[i].card_no = card_no
    THEN CHOOSE i \in 1..Len(d.library_cards) :
            /\ d.library_cards[i].card_no = card_no
            /\ \A j \in 1..(i - 1) : d.library_cards[j].card_no # card_no
    ELSE 0

find_borrower(d, borrower_id) ==
    IF \E i \in 1..Len(d.borrowers) : d.borrowers[i].borrower_id = borrower_id
    THEN CHOOSE i \in 1..Len(d.borrowers) :
            /\ d.borrowers[i].borrower_id = borrower_id
            /\ \A j \in 1..(i - 1) : d.borrowers[j].borrower_id # borrower_id
    ELSE 0

Clamp(n) == IF n < 0 THEN 0 ELSE n

\* Variant: subtracts the change instead of adding it.
update_book_copies_subtracts(d, book_id, change) ==
    LET i == find_book(d, book_id)
    IN  IF i = 0 THEN [doc |-> d, ret |-> FALSE, writes |-> <<>>]
        ELSE LET d2 == [d EXCEPT !.books[i].copies = Clamp(@ - change)]
             IN  [doc |-> d2, ret |-> TRUE, writes |-> <<d2>>]

\* book["copies"] += change, clamped at 0, then save_data; False and no
\* save when there is no such book.
update_book_copies(d, book_id, change) ==
    LET i == find_book(d, book_id)
    IN  IF i = 0 THEN [doc |-> d, ret |-> FALSE, writes |-> <<>>]
        ELSE LET d2 == [d EXCEPT !.books[i].copies = Clamp(@ + change)]
             IN  [doc |-> d2, ret |-> TRUE, writes |-> <<d2>>]

add_book(d, title, copiesText) ==
    LET copies == int(copiesText)
    IN  IF ~copies.ok THEN Outcome(d, "InvalidInput", 0, <<>>)
        ELSE IF d.shape # "ok" THEN Outcome(d, "Error", 0, <<>>)
        ELSE LET g == get_next_id(d, "next_book_id")
                 new_book == [book_id |-> g.id, title |-> title, copies |-> copies.v]
                 d2 == [g.doc EXCEPT !.books = Append(@, new_book)]
             IN  Outcome(d2, "ok", g.id, <<d2>>)

issue_card(d, subscriptionText, today) ==
    LET subscription == int(subscriptionText)
    IN  IF ~subscription.ok THEN Outcome(d, "InvalidInput", 0, <<>>)
        ELSE IF d.shape # "ok" THEN Outcome(d, "Error", 0, <<>>)
        ELSE LET g == get_next_id(d, "next_card_no")
                 new_card == [card_no |-> g.id,
                              subscription |-> subscription.v,
                              issue_date |-> strftime(today)]
                 d2 == [g.doc EXCEPT !.library_cards = Append(@, new_card)]
             IN  Outcome(d2, "ok", g.id, <<d2>>)

\* Variant: refuses only a negative count.
NoCopies_negative_only(book) == book.copies < 0

\* The availability test of issue_book.
NoCopies(book) == book.copies <= 0

issue_book(d, cardText, bookText, today) ==
    LET card_no == int(cardText)
        book_id == int(bookText)
    IN  IF ~card_no.ok THEN Outcome(d, "InvalidInput", 0, <<>>)
        ELSE IF d.shape # "ok" THEN Outcome(d, "Error", 0, <<>>)
        ELSE IF find_card(d, card_no.v) = 0 THEN Outcome(d, "CardNotFound", 0, <<>>)
        ELSE IF ~book_id.ok THEN Outcome(d, "InvalidInput", 0, <<>>)
        ELSE IF find_book(d, book_id.v) = 0 THEN Outcome(d, "BookNotFound", 0, <<>>)
        ELSE IF NoCopies(d.books[find_book(d, book_id.v)])
             THEN Outcome(d, "NoCopiesAvailable", 0, <<>>)
        ELSE LET g == get_next_id(d, "next_borrower_id")
                 due == replace_day(today, today[3] + 14)
             IN  IF ~due.ok THEN Outcome(g.doc, "InvalidInput", 0, <<>>)
                 ELSE LET new_borrower ==
                              [borrower_id |-> g.id,
                               card_no |-> card_no.v,
                               book_id |-> book_id.v,
                               book_title |-> d.books[find_book(d, book_id.v)].title,
                               issued_date |-> strftime(today),
                               return_date |-> strftime(due.date)]
                          d2 == [g.doc EXCEPT !.borrowers = Append(@, new_borrower)]
                          u == update_book_copies(d2, book_id.v, 0 - 1)
                      IN  Outcome(u.doc, "ok", g.id, u.writes \o <<u.doc>>)

\* Variant: drops the first record instead of the matching one.
remaining_drop_first(borrowers, borrower_id) == Tail(borrowers)

\* The records return_book keeps: all but those with the returned id.
remaining(borrowers, borrower_id) ==
    SelectSeq(borrowers, LAMBDA br : br.borrower_id # borrower_id)

return_book(d, idText) ==
    LET borrower_id == int(idText)
    IN  IF ~borrower_id.ok THEN Outcome(d, "InvalidInput", 0, <<>>)
        ELSE IF d.shape # "ok" THEN Outcome(d, "Error", 0, <<>>)
        ELSE IF find_borrower(d, borrower_id.v) = 0
             THEN Outcome(d, "BorrowerNotFound", 0, <<>>)
        ELSE LET borrower == d.borrowers[find_borrower(d, borrower_id.v)]
                 u == update_book_copies(d, borrower.book_id, 1)
                 d2 == [u.doc EXCEPT !.borrowers = remaining(@, borrower_id.v)]
             IN  Outcome(d2, "ok", borrower_id.v, u.writes \o <<d2>>)

(* ------------------------------ actions ------------------------------- *)
Printed(op, r, arg) ==
    [op |-> op, result |-> r.result, id |-> r.id, arg |-> arg,
     afterIssueOf |-> IF lastOp.op = "issue_book" /\ lastOp.result = "ok"
                      THEN lastOp.id ELSE 0]

Failures(outs) == Cardinality({i \in DOMAIN outs : outs[i] # "written"})

\* One menu choice run to completion: the document the operation leaves,
\* its save_data calls each ending one of the three ways, and its message.
Run(op, r, arg) ==
    /\ data' = r.doc
    /\ \E outs \in [1..Len(r.writes) -> SaveOutcomes] :
           /\ faults + Failures(outs) <= MaxFaults
           /\ faults' = faults + Failures(outs)
           /\ file' = ApplyWrites(file, r.writes, outs)
    /\ lastOp' = Printed(op, r, arg)
    /\ pc' = pc

Max(a, b) == IF a > b THEN a ELSE b

AddBook ==
    /\ pc = "running"
    /\ data.next_book_id <= MaxBooks
    /\ \E title \in Titles, copiesText \in CopiesTexts :
        LET r == add_book(data, title, copiesText)
        IN  /\ Run("add_book", r, copiesText)
            /\ addedWith' = IF r.result = "ok"
                            THEN [addedWith EXCEPT ![r.id] = int(copiesText).v]
                            ELSE addedWith
            /\ printedBookId' = IF r.result = "ok"
                                THEN Max(printedBookId, r.id) ELSE printedBookId
            /\ UNCHANGED returnedLoans

IssueCard ==
    /\ pc = "running"
    /\ data.next_card_no <= MaxCards
    /\ \E subscriptionText \in SubscriptionTexts, today \in Dates :
        /\ Run("issue_card", issue_card(data, subscriptionText, today), <<>>)
        /\ UNCHANGED <<addedWith, printedBookId, returnedLoans>>

IssueBook ==
    /\ pc = "running"
    /\ data.next_borrower_id <= MaxLoans
    /\ \E cardText \in CardTexts, bookText \in BookTexts, today \in Dates :
        /\ Run("issue_book", issue_book(data, cardText, bookText, today), <<>>)
        /\ UNCHANGED <<addedWith, printedBookId, returnedLoans>>

ReturnBook ==
    /\ pc = "running"
    /\ \E idText \in LoanTexts :
        LET r == return_book(data, idText)
        IN  /\ Run("return_book", r, <<>>)
            /\ returnedLoans' = IF r.result = "ok"
                                THEN returnedLoans \cup {r.id} ELSE returnedLoans
            /\ UNCHANGED <<addedWith, printedBookId>>

\* The process ends (menu choice 9, an interrupt, a kill) and main() runs
\* again: FileStorage() loads what is on disk.
Restart ==
    LET l == load_data(file)
    IN  /\ data' = l.doc
        /\ pc' = IF l.raised THEN "crashed" ELSE "running"
        /\ lastOp' = [op |-> "restart",
                      result |-> IF l.raised THEN "Error" ELSE "ok",
                      id |-> 0, arg |-> <<>>, afterIssueOf |-> 0]
        /\ UNCHANGED <<file, faults, addedWith, printedBookId, returnedLoans>>

Started(f) ==
    /\ file = f
    /\ data = load_data(f).doc
    /\ pc = IF load_data(f).raised THEN "crashed" ELSE "running"
    /\ lastOp = [op |-> "restart",
                 result |-> IF load_data(f).raised THEN "Error" ELSE "ok",
                 id |-> 0, arg |-> <<>>, afterIssueOf |-> 0]
    /\ faults = 0
    /\ printedBookId = 0
    /\ returnedLoans = {}

\* First run: no library_data.json yet.
Init ==
    /\ Started(AbsentFile)
    /\ addedWith = [b \in 1..MaxBooks |-> 0]

Next == AddBook \/ IssueCard \/ IssueBook \/ ReturnBook \/ Restart

Spec == Init /\ [][Next]_vars

\* A start of the program on any library_data.json: none, one that is not
\* JSON, JSON without the six keys, one the process may not read, or a
\* document an earlier session wrote.
StoredDoc ==
    [DefaultDoc EXCEPT !.books = <<[book_id |-> 1, title |-> "Dune", copies |-> 2]>>,
                       !.next_book_id = 2]

StartFiles == {AbsentFile, GarbageFile, NoKeysFile, UnreadableFile, DocFile(StoredDoc)}

InitLoad ==
    /\ \E f \in StartFiles : Started(f)
    /\ addedWith = [b \in 1..MaxBooks |-> IF file = DocFile(StoredDoc) /\ b = 1 THEN 2 ELSE 0]

SpecLoad == InitLoad /\ [][Next]_vars

\* One session of the program: no restart.
NextSession == AddBook \/ IssueCard \/ IssueBook \/ ReturnBook

SpecSession == Init /\ [][NextSession]_vars

(* ============================ the claims ============================== *)
Books(d) == 1..Len(d.books)

OnLoan(d, book_id) ==
    Cardinality({j \in 1..Len(d.borrowers) : d.borrowers[j].book_id = book_id})

\* copies + outstanding loans = the copies the book was added with
Conserved(d) ==
    \A i \in Books(d) :
        d.books[i].copies + OnLoan(d, d.books[i].book_id)
            = addedWith[d.books[i].book_id]

Distinct(d) ==
    /\ \A i, j \in Books(d) : d.books[i].book_id = d.books[j].book_id => i = j
    /\ \A i, j \in 1..Len(d.library_cards) :
           d.library_cards[i].card_no = d.library_cards[j].card_no => i = j
    /\ \A i, j \in 1..Len(d.borrowers) :
           d.borrowers[i].borrower_id = d.borrowers[j].borrower_id => i = j

\* The calendar: the day after d, and n days after d.
NextDay(d) ==
    IF d[3] < DaysInMonth(d[1], d[2]) THEN <<d[1], d[2], d[3] + 1>>
    ELSE IF d[2] < 12 THEN <<d[1], d[2] + 1, 1>>
    ELSE <<d[1] + 1, 1, 1>>

RECURSIVE PlusDays(_, _)
PlusDays(d, n) == IF n = 0 THEN d ELSE PlusDays(NextDay(d), n - 1)

Mutating == {"add_book", "issue_card", "issue_book", "return_book"}

\* C1: in every reachable state every Book record has copies >= 0.
\* (Stated as the claim states it; add_book stores a negative number.)
C1_CopiesNeverNegative ==
    \A i \in Books(data) : data.books[i].copies >= 0

\* C2: issue_book with an existing card and an existing book that has
\* copies > 0 succeeds on every calendar date: it allocates a borrower id,
\* appends exactly one record due 14 calendar days after the issue date,
\* and takes exactly one copy from that book.
C2_IssueSucceedsOnEveryDate ==
    \A cardText \in CardTexts, bookText \in BookTexts, today \in Dates :
        LET card_no == int(cardText)
            book_id == int(bookText)
            b == find_book(data, book_id.v)
            r == issue_book(data, cardText, bookText, today)
        IN  (/\ card_no.ok /\ book_id.ok
             /\ find_card(data, card_no.v) # 0
             /\ b # 0
             /\ data.books[b].copies > 0)
            => /\ r.result = "ok"
               /\ r.id = data.next_borrower_id
               /\ Len(r.doc.borrowers) = Len(data.borrowers) + 1
               /\ SubSeq(r.doc.borrowers, 1, Len(data.borrowers)) = data.borrowers
               /\ r.doc.borrowers[Len(r.doc.borrowers)].borrower_id = r.id
               /\ r.doc.borrowers[Len(r.doc.borrowers)].return_date
                      = strftime(PlusDays(today, 14))
               /\ r.doc.books[b].copies = data.books[b].copies - 1

\* C3: whenever a mutating operation reports success, the document on disk
\* equals the in-memory document.
C3_SuccessMeansSaved ==
    (lastOp.op \in Mutating /\ lastOp.result = "ok") => file = DocFile(data)

\* C4: add_book with a copies value that is not a valid non-negative
\* integer (a negative integer included) fails with InvalidInput, appends
\* no Book record and leaves the next-book-id counter alone.
C4_AddBookRejectsInvalidCopies ==
    [][(/\ lastOp'.op = "add_book"
        /\ (~int(lastOp'.arg).ok \/ int(lastOp'.arg).v < 0))
       => /\ lastOp'.result = "InvalidInput"
          /\ data'.books = data.books
          /\ data'.next_book_id = data.next_book_id]_vars

\* C5: issue_book answers CardNotFound for a card never issued (whatever
\* the book id), BookNotFound for a known card and an unknown book, and
\* NoCopiesAvailable for a known card and a known book with 0 copies; in
\* each case the document is left as it was (no record appended, no copies
\* changed, counter not advanced) and nothing is written.
C5_IssueBookRefusals ==
    \A cardText \in CardTexts, bookText \in BookTexts, today \in Dates :
        LET card_no == int(cardText)
            book_id == int(bookText)
            b == find_book(data, book_id.v)
            r == issue_book(data, cardText, bookText, today)
            refused(result) == r.result = result /\ r.doc = data /\ r.writes = <<>>
        IN  /\ (card_no.ok /\ find_card(data, card_no.v) = 0)
                   => refused("CardNotFound")
            /\ (card_no.ok /\ find_card(data, card_no.v) # 0 /\ book_id.ok /\ b = 0)
                   => refused("BookNotFound")
            /\ (/\ card_no.ok /\ find_card(data, card_no.v) # 0
                /\ book_id.ok /\ b # 0 /\ data.books[b].copies = 0)
                   => refused("NoCopiesAvailable")

\* C5 witness: issue_book has just answered NoCopiesAvailable for a book
\* whose last copy is on loan.
C5_Witness ==
    /\ lastOp.op = "issue_book"
    /\ lastOp.result = "NoCopiesAvailable"
    /\ data.library_cards # <<>>
    /\ \E i \in Books(data) :
           data.books[i].copies = 0 /\ OnLoan(data, data.books[i].book_id) > 0

\* C6: from any reachable state, a successful issue_book followed at once
\* by return_book of the borrower id it allocated leaves every book's
\* copies (the issued book's and the others') and the sequence of borrower
\* records as they were before the issue.
C6_IssueThenReturnRestores ==
    \A cardText \in CardTexts, bookText \in BookTexts, today \in Dates :
        LET r == issue_book(data, cardText, bookText, today)
        IN  r.result = "ok"
            => LET q == return_book(r.doc, Text(r.id))
               IN  /\ q.result = "ok"
                   /\ q.doc.books = data.books
                   /\ q.doc.borrowers = data.borrowers

\* C6 witness: return_book has just returned the loan the operation before
\* it issued, while another loan stays outstanding and a second book exists.
C6_Witness ==
    /\ lastOp.op = "return_book"
    /\ lastOp.result = "ok"
    /\ lastOp.afterIssueOf = lastOp.id
    /\ data.borrowers # <<>>
    /\ Len(data.books) > 1

\* C7: identifiers are never duplicated across operations and restarts:
\* the book id add_book prints is above every book id printed before, the
\* ids of each collection are pairwise distinct in every state, and no
\* borrower id of a returned loan is allocated again.
C7_IdsNeverReused ==
    [][/\ (lastOp'.op = "add_book" /\ lastOp'.result = "ok")
              => lastOp'.id > printedBookId
       /\ Distinct(data')
       /\ (lastOp'.op = "issue_book" /\ lastOp'.result = "ok")
              => lastOp'.id \notin returnedLoans]_vars

\* C8: load() never fails: whatever the backing file holds, the program
\* runs on the stored document or on the empty default structure, a
\* well-formed document either way.
C8_LoadNeverFails ==
    /\ pc = "running"
    /\ data.shape = "ok"
    /\ (lastOp.op = "restart" /\ file.kind # "doc") => data = DefaultDoc

\* C9: between the operations of a session, for every book, copies plus
\* the number of outstanding borrower records of that book equals the
\* copies the book was added with.
C9_CopiesConserved == Conserved(data)

\* C9 witness: a loan has been returned and another is outstanding on a
\* book that has fewer copies than it was added with.
C9_Witness ==
    /\ returnedLoans # {}
    /\ \E i \in Books(data) :
           /\ OnLoan(data, data.books[i].book_id) > 0
           /\ data.books[i].copies < addedWith[data.books[i].book_id]

\* C10: every document written to the backing file is a consistent
\* snapshot: for every book in it, copies plus the borrower records of
\* that book equals the copies the book was added with.
C10_WrittenDocumentsConsistent ==
    file.kind = "doc" => Conserved(file.doc)

====
